---- MODULE Spec2Model ----
(***************************************************************************)
(* Private blockchain (star registry): the Blockchain class of             *)
(* src/src/blockchain.js and the Block objects it stores.                  *)
(*                                                                         *)
(* Block objects are JavaScript objects with identity: the chain array     *)
(* holds references, so the model keeps a heap of objects and a chain of   *)
(* object ids.  SHA256 is modelled as an injective constructor over the    *)
(* serialised fields (no collisions).  In Spec and SpecTamper every        *)
(* operation is awaited before the next one is issued, so each handler is  *)
(* one action; SpecInFlight interleaves the turns of calls in flight.      *)
(***************************************************************************)
EXTENDS Integers, Sequences, FiniteSets, TLC

VARIABLES heap, chain, height, now, call, tampered, procs

vars == <<heap, chain, height, now, call, tampered, procs>>

(***************************************************************************)
(* Bounds                                                                  *)
(***************************************************************************)
MaxChain == 3
MaxLate == 1
MaxInFlight == 2

(***************************************************************************)
(* Program constants                                                       *)
(***************************************************************************)
SecondsPerMinute == 60
WindowMinutes == 5
MsDigits == 3

(***************************************************************************)
(* Values                                                                  *)
(***************************************************************************)
Null == <<>>
Junk == <<"somejunkvalue">>
NoOwner == "null"
NotTampered == <<>>
Addresses == {"addrA", "addrB"}
Stars == {"star1"}
\* The data objects handed to the Block constructor, as the tuple of their
\* property values: {star, owner} and {data}.
GenesisData == <<"Genesis Block", NoOwner>>
CallerData == {<<"First Block">>}
CallerHeights == {0, 7}

RECURSIVE Pow10(_)
Pow10(n) == IF n = 0 THEN 1 ELSE 10 * Pow10(n - 1)

\* new Date().getTime().toString().slice(0, -3): the clock in milliseconds
\* with its last three digits dropped.
CurrentTime(ms) == ms \div Pow10(MsDigits)

\* The instants at which the clock is observed: the first second, at its
\* first and at its last millisecond, and the seconds around the end of the
\* five minute window that starts there.
ClockSeconds ==
    {1} \cup {1 + WindowMinutes * SecondsPerMinute + d : d \in (-1)..MaxLate}
ClockMs ==
    {s * Pow10(MsDigits) : s \in ClockSeconds} \cup {2 * Pow10(MsDigits) - 1}

\* Buffer.from(JSON.stringify(data)).toString('hex') and hex2ascii
Hex(text) == <<"hex", text>>

\* The body handed back as it is stored.
hex2asciiUndecoded(body) == body

hex2ascii(body) == body[2]

\* JSON.stringify(block): the own properties in creation order.
JSONstringify(b) ==
    <<b.hash, b.height, b.body, b.time, b.previousBlockHash, b.owner>>

SHA256(text) == <<"sha256", text>>

\* new BlockClass.Block(data)
Block(data) ==
    [proto |-> "Block", hash |-> Null, height |-> 0, body |-> Hex(data),
     time |-> 0, previousBlockHash |-> Null, owner |-> NoOwner]

\* Block.validate(): recompute the hash with the hash field cleared and
\* compare with the stored one (as Blockchain.validateBlock does).
validate(b) == b.hash = SHA256(JSONstringify([b EXCEPT !.hash = Null]))

validateBlock(h, c, blockHeight) ==
    LET first == CHOOSE i \in 1..Len(c) :
                    /\ h[c[i]].height = blockHeight
                    /\ \A j \in 1..(i - 1) : h[c[j]].height # blockHeight
        block == h[c[first]]
    IN  block.hash = SHA256(JSONstringify([block EXCEPT !.hash = Null]))

(***************************************************************************)
(* validateChain: the error log of a chain, indices counted from 0.        *)
(***************************************************************************)
RECURSIVE validateChainFrom(_, _, _)
validateChainFrom(h, c, i) ==
    IF i >= Len(c) - 1 THEN <<>>
    ELSE LET blk == h[c[i + 1]]
             nxt == h[c[i + 2]]
             e1 == IF ~validate(blk) THEN <<i>> ELSE <<>>
             e2 == IF blk.hash # nxt.previousBlockHash THEN <<i>> ELSE <<>>
         IN  e1 \o e2 \o validateChainFrom(h, c, i + 1)

\* Each offending index recorded once, whatever the number of violations.
RECURSIVE validateChainOnceFrom(_, _, _)
validateChainOnceFrom(h, c, i) ==
    IF i >= Len(c) - 1 THEN <<>>
    ELSE LET blk == h[c[i + 1]]
             nxt == h[c[i + 2]]
         IN  (IF ~validate(blk) \/ blk.hash # nxt.previousBlockHash
              THEN <<i>> ELSE <<>>) \o validateChainOnceFrom(h, c, i + 1)

validateChainOnce(h, c) == validateChainOnceFrom(h, c, 0)

validateChain(h, c) == validateChainFrom(h, c, 0)

(***************************************************************************)
(* _addBlock                                                               *)
(***************************************************************************)
\* Duck typing instead of instanceof: any object passes.
IsBlockAnyObject(v) == v.proto \in {"Block", "Object"}

IsBlock(v) == v.proto = "Block"

\* The height taken one too high.
SealedHeightOff(h, c, b, t) ==
    LET b1 == [b EXCEPT !.time = t]
        b2 == IF Len(c) > 0
              THEN [b1 EXCEPT !.previousBlockHash = h[c[Len(c)]].hash,
                              !.height = Len(c) + 1]
              ELSE b1
    IN  [b2 EXCEPT !.hash = SHA256(JSONstringify(b2))]

\* The tail and the height taken from the height counter instead of the
\* chain array.
SealedByCounter(h, c, b, t) ==
    LET b1 == [b EXCEPT !.time = t]
        b2 == IF height >= 0
              THEN [b1 EXCEPT !.previousBlockHash = h[c[height + 1]].hash,
                              !.height = height + 1]
              ELSE b1
    IN  [b2 EXCEPT !.hash = SHA256(JSONstringify(b2))]

\* Lines 70-76: stamp the time, link to the tail, set the height, hash.
Sealed(h, c, b, t) ==
    LET b1 == [b EXCEPT !.time = t]
        b2 == IF Len(c) > 0
              THEN [b1 EXCEPT !.previousBlockHash = h[c[Len(c)]].hash,
                              !.height = Len(c)]
              ELSE b1
    IN  [b2 EXCEPT !.hash = SHA256(JSONstringify(b2))]

\* The heap, the chain and the settlement of the promise after
\* _addBlock(block), where block is the object id of heap h.
addBlockHeap(h, c, id, t) ==
    IF IsBlock(h[id]) THEN [h EXCEPT ![id] = Sealed(h, c, h[id], t)] ELSE h

addBlockChain(h, c, id) ==
    IF IsBlock(h[id]) THEN Append(c, id) ELSE c

\* resolve(self.chain[blockIndex - 1]), blockIndex being what push returned
addBlockValue(h, c, id) ==
    LET pushed == addBlockChain(h, c, id)
        blockIndex == Len(pushed)
    IN  pushed[blockIndex]

\* The error log ignored: the promise resolves whatever validateChain found.
addBlockErrorUnchecked(h, c, id, t) ==
    IF IsBlock(h[id]) THEN "" ELSE "Can add only objects of type Block"

addBlockError(h, c, id, t) ==
    IF IsBlock(h[id])
    THEN IF Len(validateChain(addBlockHeap(h, c, id, t), addBlockChain(h, c, id))) > 0
         THEN "Blockchain validation failed "
         ELSE ""
    ELSE "Can add only objects of type Block"

NoCall ==
    [op |-> "constructor", status |-> "resolved", error |-> "", block |-> 0,
     value |-> 0, log |-> <<>>, elapsed |-> 0, parsable |-> TRUE,
     verified |-> TRUE, wellFormed |-> TRUE, proto |-> "Block",
     address |-> NoOwner, star |-> "", stars |-> <<>>, none |-> FALSE,
     text |-> <<>>]

\* The record of the last call: the object passed or built (block), how the
\* promise settled, and the value or the error it settled with.
Settled(op, err, blk, val) ==
    [NoCall EXCEPT !.op = op,
                   !.status = IF err = "" THEN "resolved" ELSE "rejected",
                   !.error = err, !.block = blk,
                   !.value = IF err = "" THEN val ELSE 0]

(***************************************************************************)
(* Construction: chain = [], height = -1, initializeChain() pushes the     *)
(* genesis block before the constructor returns.                           *)
(***************************************************************************)
GenesisCandidate == [Block(GenesisData) EXCEPT !.height = 0]

\* A call of _addBlock in flight: where it stands (pc), the object passed,
\* what push returned, the loop index, the outcome of the validate() awaited
\* and the error log of its validateChain(), how its promise settled, and
\* whether another call was in flight when it was issued.
Idle ==
    [pc |-> "idle", block |-> 0, blockIndex |-> 0, i |-> 0, valid |-> TRUE,
     log |-> <<>>, status |-> "pending", value |-> 0, overlapped |-> FALSE]

Callers == 1..MaxInFlight

Init ==
    /\ procs = [p \in 0..MaxInFlight |-> Idle]
    /\ now \in ClockMs
    /\ height = -1
    /\ heap = addBlockHeap(<<GenesisCandidate>>, <<>>, 1, CurrentTime(now))
    /\ chain = addBlockChain(<<GenesisCandidate>>, <<>>, 1)
    /\ call = NoCall
    /\ tampered = NotTampered

Tick ==
    /\ \E t \in ClockMs : t > now /\ now' = t
    /\ UNCHANGED <<heap, chain, height, call, tampered, procs>>

\* _addBlock(block) with an object the caller has just built
\* (a Block as constructed or with its fields preset by the caller, or a
\* value that is no Block)
CallerCandidates ==
    {[proto |-> "Block", hash |-> hs, height |-> ht, body |-> Hex(d),
      time |-> 0, previousBlockHash |-> IF ht = 0 THEN Null ELSE Junk,
      owner |-> NoOwner] :
        hs \in {Null, Junk}, ht \in CallerHeights, d \in CallerData}
    \cup
    {[proto |-> p, hash |-> Null, height |-> 0, body |-> Hex(d),
      time |-> 0, previousBlockHash |-> Null, owner |-> NoOwner] :
        p \in {"Object", "String"}, d \in CallerData}

addBlockNew ==
    /\ tampered = NotTampered
    /\ Len(chain) < MaxChain
    /\ \E cand \in CallerCandidates :
         LET h0 == Append(heap, cand)
             id == Len(heap) + 1
             t == CurrentTime(now)
             err == addBlockError(h0, chain, id, t)
         IN  /\ heap' = IF addBlockChain(h0, chain, id) # chain
                         THEN addBlockHeap(h0, chain, id, t) ELSE heap
             /\ chain' = addBlockChain(h0, chain, id)
             /\ call' = [Settled("_addBlock", err, id, addBlockValue(h0, chain, id))
                            EXCEPT !.proto = cand.proto]
    /\ UNCHANGED <<height, now, tampered, procs>>

\* _addBlock(block) with a Block object that is already in the chain
addBlockAgain ==
    /\ tampered = NotTampered
    /\ Len(chain) < MaxChain
    /\ \E i \in 1..Len(chain) :
         LET id == chain[i]
             t == CurrentTime(now)
         IN  /\ heap' = addBlockHeap(heap, chain, id, t)
             /\ chain' = addBlockChain(heap, chain, id)
             /\ call' = Settled("_addBlock", addBlockError(heap, chain, id, t),
                                id, addBlockValue(heap, chain, id))
    /\ UNCHANGED <<height, now, tampered, procs>>

\* initializeChain() called again after construction
NeedsGenesis(ht) == ht = -1

initializeChain ==
    /\ tampered = NotTampered
    /\ Len(chain) < MaxChain
    /\ LET h0 == Append(heap, GenesisCandidate)
           id == Len(heap) + 1
           t == CurrentTime(now)
       IN  IF NeedsGenesis(height)
           THEN /\ heap' = addBlockHeap(h0, chain, id, t)
                /\ chain' = addBlockChain(h0, chain, id)
                /\ call' = Settled("initializeChain",
                                   addBlockError(h0, chain, id, t), id, 0)
           ELSE /\ UNCHANGED <<heap, chain>>
                /\ call' = Settled("initializeChain", "", 0, 0)
    /\ UNCHANGED <<height, now, tampered, procs>>

getChainHeight ==
    /\ call' = Settled("getChainHeight", "", 0, height)
    /\ UNCHANGED <<heap, chain, height, now, tampered, procs>>

\* validateChain() called by a client
validateChainCall ==
    /\ call' = [Settled("validateChain", "", 0, 0)
                   EXCEPT !.log = validateChain(heap, chain)]
    /\ UNCHANGED <<heap, chain, height, now, tampered, procs>>

(***************************************************************************)
(* submitStar                                                              *)
(***************************************************************************)
\* A message "<address>:<time>:starRegistry"; numeric = FALSE stands for a
\* second field that parseInt turns into NaN.
\* requestMessageOwnershipVerification(address) at clock ms resolves with
requestMessageOwnershipVerification(address, ms) ==
    [address |-> address, time |-> CurrentTime(ms), numeric |-> TRUE]

\* What a caller may pass as message: one that
\* requestMessageOwnershipVerification issued to it at some instant, or one
\* whose second field is not a number.
Messages(address) ==
    {requestMessageOwnershipVerification(address, ms) : ms \in ClockMs}
        \cup {[address |-> address, time |-> 0, numeric |-> FALSE]}

\* A signature names its signer and the message signed.  What a caller may
\* pass along with a message: a signature of that message by either wallet,
\* its own signature of another message, or text that is no signature at
\* all, on which bitcoinMessage.verify throws.
OtherMessage(message) ==
    [message EXCEPT !.time = message.time + 1, !.numeric = TRUE]

SignaturesFor(message) ==
    {[wellFormed |-> TRUE, signer |-> a, message |-> message] : a \in Addresses}
    \cup {[wellFormed |-> TRUE, signer |-> message.address,
           message |-> OtherMessage(message)]}
    \cup {[wellFormed |-> FALSE, signer |-> message.address, message |-> message]}

verifyThrows(message, address, signature) == ~signature.wellFormed

verify(message, address, signature) ==
    signature.signer = address /\ signature.message = message

\* ((currentTime - messageTime) / 60) > 5; a comparison with NaN is false.
Elapsed(message, ms) == CurrentTime(ms) - message.time

\* The window closed one second early (>= instead of >).
ExpiredAtFive(message, ms) ==
    /\ message.numeric
    /\ Elapsed(message, ms) >= WindowMinutes * SecondsPerMinute

Expired(message, ms) ==
    /\ message.numeric
    /\ Elapsed(message, ms) > WindowMinutes * SecondsPerMinute

ExpiredMessage == "More than 5 mins elapsed since the signing of the message"

StarBlock(address, star) ==
    [Block(<<star, address>>) EXCEPT !.owner = address]

SignatureMessage == "Not able to verify the message"

\* The signature check left out.
submitStarErrorUnverified(message, address, signature, ms) ==
    IF Expired(message, ms)
    THEN ExpiredMessage
    ELSE IF verifyThrows(message, address, signature)
    THEN "Error while adding the block to chain"
    ELSE ""

submitStarError(message, address, signature, ms) ==
    IF Expired(message, ms)
    THEN ExpiredMessage
    ELSE IF verifyThrows(message, address, signature)
    THEN "Error while adding the block to chain"
    ELSE IF ~verify(message, address, signature)
    THEN SignatureMessage
    ELSE ""

submitStar ==
    /\ tampered = NotTampered
    /\ Len(chain) < MaxChain
    /\ \E address \in Addresses, star \in Stars :
       \E message \in Messages(address) :
       \E signature \in SignaturesFor(message) :
         LET early == submitStarError(message, address, signature, now)
             h0 == Append(heap, StarBlock(address, star))
             id == Len(heap) + 1
             t == CurrentTime(now)
             seen == [NoCall EXCEPT
                        !.elapsed = Elapsed(message, now),
                        !.parsable = message.numeric,
                        !.wellFormed = signature.wellFormed,
                        !.address = address,
                        !.star = star,
                        !.verified = /\ signature.wellFormed
                                     /\ verify(message, address, signature)]
         IN  IF early # ""
             THEN /\ UNCHANGED <<heap, chain>>
                  /\ call' = [seen EXCEPT !.op = "submitStar",
                                          !.status = "rejected",
                                          !.error = early]
             ELSE /\ heap' = addBlockHeap(h0, chain, id, t)
                  /\ chain' = addBlockChain(h0, chain, id)
                  /\ call' = [seen EXCEPT
                        !.op = "submitStar",
                        !.status = IF addBlockError(h0, chain, id, t) = ""
                                   THEN "resolved" ELSE "rejected",
                        !.error = addBlockError(h0, chain, id, t),
                        !.block = id,
                        !.value = IF addBlockError(h0, chain, id, t) = ""
                                  THEN addBlockValue(h0, chain, id) ELSE 0]
    /\ UNCHANGED <<height, now, tampered, procs>>

(***************************************************************************)
(* Reads of the stored payloads                                            *)
(***************************************************************************)
\* Only the first block of the owner returned.
getStarsFirstOnly(h, c, address) ==
    LET Owned(id) == h[id].owner = address
        blocks == SelectSeq(c, Owned)
    IN  IF Len(blocks) > 0 THEN <<hex2ascii(h[blocks[1]].body)>> ELSE <<>>

\* ownedBlocks of getStarsByWalletAddress(address); the promise resolves
\* with null when it is empty.
getStarsByWalletAddress(h, c, address) ==
    LET Owned(id) == h[id].owner = address
        blocks == SelectSeq(c, Owned)
    IN  [n \in 1..Len(blocks) |-> hex2ascii(h[blocks[n]].body)]

\* The arguments of getStarsByWalletAddress: a wallet address, or none.
Queries == Addresses \cup {NoOwner}

getStarsCall ==
    /\ \E address \in Queries :
         LET ownedBlocks == getStarsByWalletAddress(heap, chain, address)
         IN  call' = [Settled("getStarsByWalletAddress", "", 0, 0)
                        EXCEPT !.address = address,
                               !.stars = ownedBlocks,
                               !.none = ~(Len(ownedBlocks) > 0)]
    /\ UNCHANGED <<heap, chain, height, now, tampered, procs>>

\* Block.getBData(): refused for the block of height 0, else the decoded body.
GenesisAccessMessage == "Can not return data for Genesis Block"

getBDataError(b) == IF b.height = 0 THEN GenesisAccessMessage ELSE ""

getBData(b) == hex2ascii(b.body)

getBDataCall ==
    /\ \E i \in 1..Len(chain) :
         LET b == heap[chain[i]]
         IN  call' = [Settled("getBData", getBDataError(b), chain[i], 0)
                        EXCEPT !.text = IF getBDataError(b) = ""
                                        THEN getBData(b) ELSE <<>>]
    /\ UNCHANGED <<heap, chain, height, now, tampered, procs>>

Next ==
    \/ Tick
    \/ addBlockNew
    \/ addBlockAgain
    \/ initializeChain
    \/ getChainHeight
    \/ validateChainCall
    \/ submitStar
    \/ getStarsCall
    \/ getBDataCall

Spec == Init /\ [][Next]_vars

(***************************************************************************)
(* Tampering: somebody holding a reference to a stored block overwrites    *)
(* one of its fields, once, on a chain that is valid; afterwards the chain *)
(* is only inspected.                                                      *)
(***************************************************************************)
StoredFields == {"height", "body", "time", "previousBlockHash", "owner"}

Tampered(b, field) ==
    CASE field = "height" -> [b EXCEPT !.height = b.height + 1]
      [] field = "body" -> [b EXCEPT !.body = Hex(<<"tampered">>)]
      [] field = "time" -> [b EXCEPT !.time = b.time + 1]
      [] field = "previousBlockHash" ->
            [b EXCEPT !.previousBlockHash =
                        IF b.previousBlockHash = Junk THEN Null ELSE Junk]
      [] field = "owner" -> [b EXCEPT !.owner = "mallory"]

ValidChain(h, c) ==
    /\ validateChain(h, c) = <<>>
    /\ \A i \in 1..Len(c) : validate(h[c[i]])
    /\ \A i, j \in 1..Len(c) : c[i] = c[j] => i = j

Tamper ==
    /\ tampered = NotTampered
    /\ ValidChain(heap, chain)
    /\ \E k \in 1..Len(chain), field \in StoredFields :
         /\ heap' = [heap EXCEPT ![chain[k]] = Tampered(heap[chain[k]], field)]
         /\ tampered' = <<k - 1>>
         /\ call' = Settled("tamper", "", chain[k], 0)
    /\ UNCHANGED <<chain, height, now, procs>>

NextTamper == Next \/ Tamper

SpecTamper == Init /\ [][NextTamper]_vars

(***************************************************************************)
(* Calls in flight together.  A promise executor runs synchronously up to  *)
(* its first await, and what follows an await runs in a later turn of the  *)
(* event loop: _addBlock runs lines 69-77 and the start of validateChain   *)
(* in the turn of the call, validateChain resumes once per block, and      *)
(* _addBlock settles after validateChain resolved.  Turns of different     *)
(* calls interleave in any order.                                          *)
(***************************************************************************)
\* The test of the for loop (line 215) and, when it passes, the call of
\* validate() of line 217, after which validateChain awaits.
LoopTest(h, c, pr) ==
    IF pr.i < Len(c) - 1
    THEN [pr EXCEPT !.valid = validate(h[c[pr.i + 1]]), !.pc = "awaitValidate"]
    ELSE [pr EXCEPT !.pc = "awaitLog"]

\* Lines 218-226 after the await, then the next test of the loop.
LoopBody(h, c, pr) ==
    LET e1 == IF ~pr.valid THEN <<pr.i>> ELSE <<>>
        e2 == IF h[c[pr.i + 1]].hash # h[c[pr.i + 2]].previousBlockHash
              THEN <<pr.i>> ELSE <<>>
    IN  LoopTest(h, c, [pr EXCEPT !.log = pr.log \o e1 \o e2, !.i = pr.i + 1])

InFlight(p) == procs[p].pc \in {"awaitValidate", "awaitLog"}

\* The turn of the call: lines 69-77, then validateChain up to its first
\* await.
Issued(h1, c1, id) ==
    LoopTest(h1, c1,
        [Idle EXCEPT !.block = id, !.blockIndex = Len(c1),
                     !.overlapped = \E q \in Callers : InFlight(q)])

\* _addBlock(block) with a new Block, its hash field as the caller left it
CallNew(p) ==
    /\ procs[p].pc = "idle"
    /\ Len(chain) < MaxChain
    /\ \E hs \in {Null, Junk}, d \in CallerData :
         LET h0 == Append(heap, [Block(d) EXCEPT !.hash = hs])
             id == Len(heap) + 1
             h1 == addBlockHeap(h0, chain, id, CurrentTime(now))
             c1 == addBlockChain(h0, chain, id)
         IN  /\ heap' = h1
             /\ chain' = c1
             /\ procs' = [procs EXCEPT ![p] = Issued(h1, c1, id)]
    /\ UNCHANGED <<height, now, call, tampered>>

\* _addBlock(block) with a Block object that is already in the chain
CallAgain(p) ==
    /\ procs[p].pc = "idle"
    /\ Len(chain) < MaxChain
    /\ \E i \in 1..Len(chain) :
         LET id == chain[i]
             h1 == addBlockHeap(heap, chain, id, CurrentTime(now))
             c1 == addBlockChain(heap, chain, id)
         IN  /\ heap' = h1
             /\ chain' = c1
             /\ procs' = [procs EXCEPT ![p] = Issued(h1, c1, id)]
    /\ UNCHANGED <<height, now, call, tampered>>

\* validateChain resumes after the await of line 217
Resume(p) ==
    /\ procs[p].pc = "awaitValidate"
    /\ procs' = [procs EXCEPT ![p] = LoopBody(heap, chain, procs[p])]
    /\ UNCHANGED <<heap, chain, height, now, call, tampered>>

\* _addBlock resumes after the await of line 79 and settles its promise
Settle(p) ==
    /\ procs[p].pc = "awaitLog"
    /\ procs' = [procs EXCEPT ![p] =
           IF Len(procs[p].log) > 0
           THEN [procs[p] EXCEPT !.pc = "done", !.status = "rejected"]
           ELSE [procs[p] EXCEPT !.pc = "done", !.status = "resolved",
                                 !.value = chain[procs[p].blockIndex]]]
    /\ UNCHANGED <<heap, chain, height, now, call, tampered>>

\* The state the constructor returns in: the genesis block is pushed, and
\* the _addBlock of initializeChain (call 0) awaits its validateChain.
InitInFlight ==
    /\ now \in ClockMs
    /\ height = -1
    /\ heap = addBlockHeap(<<GenesisCandidate>>, <<>>, 1, CurrentTime(now))
    /\ chain = addBlockChain(<<GenesisCandidate>>, <<>>, 1)
    /\ call = NoCall
    /\ tampered = NotTampered
    /\ procs = [p \in 0..MaxInFlight |->
                  IF p = 0
                  THEN LoopTest(heap, chain,
                          [Idle EXCEPT !.block = 1, !.blockIndex = Len(chain)])
                  ELSE Idle]

NextInFlight ==
    \/ \E p \in Callers : CallNew(p)
    \/ \E p \in Callers : CallAgain(p)
    \/ \E p \in 0..MaxInFlight : Resume(p)
    \/ \E p \in 0..MaxInFlight : Settle(p)

SpecInFlight == InitInFlight /\ [][NextInFlight]_vars

(***************************************************************************)
(* Properties                                                              *)
(***************************************************************************)
TailOf(c) == c[Len(c)]

\* C1: in every reachable state the height counter equals the number of
\* blocks minus one, and getChainHeight() resolves with that value.
C1_HeightIsLengthMinusOne ==
    /\ height = Len(chain) - 1
    /\ call.op = "getChainHeight" => call.value = Len(chain) - 1

\* C2: initializeChain() called on a ledger that already holds a genesis
\* block appends nothing.
C2_InitializeIdempotent ==
    [][(call' # call /\ call'.op = "initializeChain")
          => (chain' = chain /\ heap' = heap)]_vars

\* C3: every block's previousBlockHash is the hash of the block before it,
\* and the block at index 0 has an empty previousBlockHash.
C3_HashLinkage ==
    /\ \A i \in 1..(Len(chain) - 1) :
          heap[chain[i + 1]].previousBlockHash = heap[chain[i]].hash
    /\ heap[chain[1]].previousBlockHash = Null

\* C4: the block stored at index i has height i.
C4_HeightsContiguous ==
    \A i \in 1..Len(chain) : heap[chain[i]].height = i - 1

\* C5: an _addBlock(b) that resolves, resolves with b itself, b is the new
\* tail, b.height is the chain length before the call and
\* b.previousBlockHash is the hash the old tail had before the call.
C5_AppendResolvesWithLinkedTail ==
    [][(call' # call /\ call'.op = "_addBlock" /\ call'.status = "resolved")
          => /\ call'.value = call'.block
             /\ chain' = Append(chain, call'.block)
             /\ heap'[call'.block].height = Len(chain)
             /\ heap'[call'.block].previousBlockHash = heap[TailOf(chain)].hash]_vars

C5_Witness ==
    /\ call.op = "_addBlock"
    /\ call.status = "resolved"
    /\ call.value = call.block
    /\ TailOf(chain) = call.block
    /\ Len(chain) = 3
    /\ heap[call.block].height = 2
    /\ heap[call.block].previousBlockHash = heap[chain[2]].hash

\* C6: _addBlock with a value that is not a Block rejects with the type
\* error and leaves the chain, the stored blocks and the height as they were.
C6_NonBlockRejected ==
    [][(call' # call /\ call'.op = "_addBlock" /\ call'.proto # "Block")
          => /\ call'.status = "rejected"
             /\ call'.error = "Can add only objects of type Block"
             /\ chain' = chain
             /\ heap' = heap
             /\ height' = height]_vars

C6_Witness ==
    /\ call.op = "_addBlock"
    /\ call.proto = "Object"
    /\ call.error = "Can add only objects of type Block"
    /\ Len(chain) = 2

\* C7: the block an _addBlock resolved with validates right after the
\* append, whatever its hash field held when it was passed in.
C7_AppendedBlockValidates ==
    (call.op = "_addBlock" /\ call.status = "resolved")
        => validate(heap[call.value])

\* C8: on a chain written only through the ledger's operations,
\* validateChain() resolves with the empty error log.
C8_UntamperedChainValidates ==
    /\ tampered = NotTampered => validateChain(heap, chain) = <<>>
    /\ (tampered = NotTampered /\ call.op = "validateChain") => call.log = <<>>

\* C9: after one stored field other than the hash of the block at index k
\* of a valid chain was changed, validateChain() reports k.
C9_TamperDetected ==
    (tampered # NotTampered /\ call.op = "validateChain")
        => \E n \in 1..Len(call.log) : call.log[n] = tampered[1]

C11_BadSignatureGivesSignatureError ==
    [][(call' # call /\ call'.op = "submitStar" /\ ~call'.verified
            /\ call'.wellFormed)
          => /\ call'.status = "rejected"
             /\ call'.error = SignatureMessage
             /\ chain' = chain
             /\ heap' = heap]_vars

\* C11 as amended: whenever the signature does not verify, submitStar
\* rejects and leaves the chain as it was; the rejection carries the
\* signature error when the message is not expired and verify returned false.
C11_BadSignatureRejected ==
    [][(call' # call /\ call'.op = "submitStar" /\ ~call'.verified)
          => /\ call'.status = "rejected"
             /\ chain' = chain
             /\ heap' = heap
             /\ (call'.wellFormed /\ ~(call'.parsable /\ call'.elapsed > 5 * 60))
                   => call'.error = SignatureMessage]_vars

C11_Witness ==
    /\ call.op = "submitStar"
    /\ ~call.verified
    /\ call.wellFormed
    /\ call.parsable
    /\ call.elapsed = 5 * 60
    /\ call.status = "rejected"
    /\ call.error = SignatureMessage
    /\ Len(chain) = 2

\* C12: submitStar with a message whose second field is not a number rejects
\* and appends no block, whatever the signature.
C12_UnparsableTimeRejected ==
    [][(call' # call /\ call'.op = "submitStar" /\ ~call'.parsable)
          => /\ call'.status = "rejected"
             /\ chain' = chain
             /\ heap' = heap]_vars

\* The positions of the chain whose block is owned by address, and the
\* n-th of them in chain order.
OwnedAt(address) == {i \in 1..Len(chain) : heap[chain[i]].owner = address}

NthOwned(address, n) ==
    CHOOSE i \in OwnedAt(address) :
        Cardinality({j \in OwnedAt(address) : j <= i}) = n

\* C13: getStarsByWalletAddress(A) resolves with the decoded bodies of the
\* blocks owned by A, one per block, in chain order, and with null when A
\* owns none; called right after a submitStar of A that resolved, the list
\* holds the record of the star submitted.
C13_ClaimsByAddress ==
    [][(call' # call /\ call'.op = "getStarsByWalletAddress")
          => LET A == call'.address
             IN  /\ call'.status = "resolved"
                 /\ Len(call'.stars) = Cardinality(OwnedAt(A))
                 /\ \A n \in 1..Len(call'.stars) :
                       Hex(call'.stars[n]) = heap[chain[NthOwned(A, n)]].body
                 /\ call'.none <=> OwnedAt(A) = {}
                 /\ (call.op = "submitStar" /\ call.status = "resolved"
                        /\ call.address = A)
                      => \E n \in 1..Len(call'.stars) :
                            call'.stars[n] = <<call.star, A>>]_vars

C13_Witness ==
    /\ call.op = "getStarsByWalletAddress"
    /\ call.address = "addrA"
    /\ Len(call.stars) = 2
    /\ heap[chain[2]].owner = "addrA"
    /\ heap[chain[3]].owner = "addrA"
    /\ call.stars[2] = <<"star1", "addrA">>

C15_LostUpdate ==
    \A p, q \in Callers :
        (p # q /\ procs[p].pc = "done" /\ procs[q].pc = "done"
             /\ procs[q].overlapped /\ procs[p].block # procs[q].block)
        => /\ heap[procs[p].block].height = heap[procs[q].block].height
           /\ heap[procs[p].block].previousBlockHash
                 = heap[procs[q].block].previousBlockHash

\* C15 as amended: a call of _addBlock reads the tail and pushes in one
\* turn, so whatever the interleaving of the calls in flight, its block is
\* in the chain where push put it as soon as the call is issued, and no two
\* blocks of the chain share a height or a previousBlockHash.
C15_NoLostUpdate ==
    /\ \A p \in Callers :
          procs[p].pc # "idle" => chain[procs[p].blockIndex] = procs[p].block
    /\ \A i, j \in 1..Len(chain) :
          chain[i] # chain[j]
          => /\ heap[chain[i]].height # heap[chain[j]].height
             /\ heap[chain[i]].previousBlockHash
                   # heap[chain[j]].previousBlockHash

C15_Witness ==
    /\ InFlight(1)
    /\ InFlight(2)
    /\ procs[2].overlapped
    /\ procs[1].block # procs[2].block
    /\ heap[procs[1].block].height = 1
    /\ heap[procs[2].block].height = 2
    /\ heap[procs[2].block].previousBlockHash = heap[procs[1].block].hash

\* C16: from the moment the constructor has returned, with the call of
\* initializeChain still in flight, the chain is never empty and its first
\* block is the genesis block the ledger built: height 0, the genesis body,
\* no owner, no previousBlockHash.
C16_GenesisFirst ==
    /\ Len(chain) >= 1
    /\ chain[1] = 1
    /\ heap[chain[1]].body = Hex(GenesisData)
    /\ heap[chain[1]].owner = NoOwner
    /\ heap[chain[1]].height = 0
    /\ heap[chain[1]].previousBlockHash = Null

\* C17: validateChain() resolves, with a list in non-decreasing order of
\* indices from 0 to length - 2, in which i stands once if the block at i
\* does not validate, once more if its hash is not the previousBlockHash of
\* the block at i + 1, and not otherwise.
TimesIn(log, i) == Cardinality({k \in 1..Len(log) : log[k] = i})

C18_RejectedBlockStays ==
    [][(call' # call /\ call'.op = "_addBlock" /\ call'.proto = "Block")
          => /\ chain' = Append(chain, call'.block)
             /\ Len(validateChain(heap', chain')) > 0
                   => /\ call'.status = "rejected"
                      /\ call'.error = "Blockchain validation failed "
             /\ call'.status = "resolved"
                   => validateChain(heap', chain') = <<>>]_vars

C18_Witness ==
    /\ call.op = "_addBlock"
    /\ call.status = "rejected"
    /\ call.error = "Blockchain validation failed "
    /\ Len(chain) = 3
    /\ TailOf(chain) = call.block
    /\ chain[2] # call.block
    /\ chain[1] # call.block

\* C19: no operation of the ledger changes a field of a block that is in
\* the chain, nor removes or moves a block.
C19_StoredBlocksImmutable ==
    [][tampered' = NotTampered
          => /\ Len(chain') >= Len(chain)
             /\ \A i \in 1..Len(chain) :
                   /\ chain'[i] = chain[i]
                   /\ heap'[chain[i]] = heap[chain[i]]]_vars

\* C20: the list getStarsByWalletAddress resolves with never holds the
\* decoded body of the genesis block, whatever the argument.
C20_GenesisNeverDecoded ==
    call.op = "getStarsByWalletAddress"
        => \A n \in 1..Len(call.stars) : Hex(call.stars[n]) # heap[chain[1]].body
====
